---- MODULE Spec2Model ----
(***************************************************************************)
(* Daily stochastic weather generator (EAA WG, Frio basin): one worker     *)
(* process of EAAWGmp.py running a chunk of realizations, each realization  *)
(* being one call of WG_Worker_Main.                                        *)
(*                                                                          *)
(* Number representation.  Floating point quantities are fixed point        *)
(* integers: depths in 1/1000 mm, temperatures and residuals in 1/1000      *)
(* (degC or sigma), event trigger times in quarter days (365.25 d = 1461    *)
(* quarter days), uniform variates in tenths.  NaN and +/-Inf are the       *)
(* values NaN, PInf, NInf outside the finite range.  The fixed point grid   *)
(* stands for float64, in which the program computes.  The output buffer    *)
(* is a float32 array: a value stored in it is rounded to the nearest       *)
(* number of the coarser binary floating point grid, whose step doubles     *)
(* from one binade [2^e, 2^(e+1)) to the next.  The model keeps that        *)
(* structure at its own resolution: the step is 1/1000 on [1, 2), 2/1000    *)
(* on [2, 4), 4/1000 on [4, 8) and so on, ties to even.                     *)
(*                                                                          *)
(* Random streams.  A sampler is the record [seed, pos] of a numpy          *)
(* RandomState: the seed it was created with and the number of variates     *)
(* drawn from it.  Spell lengths, depths, event interarrivals and the       *)
(* starting state variate are drawn from small sets.  The standard normal   *)
(* innovations and the event magnitudes are fixed functions of (seed, pos), *)
(* so that two samplers with equal seed and position return equal variates. *)
(*                                                                          *)
(* Tracked samples.  sampleAll refreshes ST_DRYSPELL, ST_WETSPELL and       *)
(* ST_PDEPTH for all twelve months at the top of every iteration, and the   *)
(* iteration reads only the entries of its own month.  The model draws the  *)
(* entries of that month, advances the position of all 36 samplers, keeps   *)
(* the depth entry in ST_PDEPTH and passes the two spell entries to the     *)
(* step that reads them.                                                    *)
(*                                                                          *)
(* Specifications.  Spec is the worker on EAAWG_Inputs.py as it is.         *)
(* SpecInputs is the worker on input tables with one entry edited.          *)
(* SpecCoord applies the coordinator's test of the returned statuses to     *)
(* every status list, and SpecCtor calls each constructor on its own.       *)
(* SpecOther runs the daily residual and temperature functions of          *)
(* EAAWG_OtherWeather.py on residuals, innovations and climatology tables   *)
(* that hold NaN and Inf entries.                                           *)
(***************************************************************************)
EXTENDS Integers, Sequences, FiniteSets, TLC

VARIABLES
    pc,                      \* position of the worker process
    RealNum,                 \* realization index the worker runs (or runs next)
    results,                 \* statuses returned by completed realizations
    DDRY_SPELL_SAMP,         \* month -> sampler
    DWET_SPELL_SAMP,         \* month -> sampler
    DP_DEPTH_SAMP,           \* month -> sampler
    ST_PDEPTH,               \* tracked depth sample of the month read
    EPS_NORM_SAMP,           \* list of standard normal samplers
    EPSI_2,                  \* <<eps Tmax channel, eps Tmin channel>>
    CHI_M0,                  \* today's residual
    CHI_L1M0,                \* yesterday's residual
    ACT_EVENT_DICT,          \* event -> [recur sampler, mag sampler]
    NEXT_EVENT_DICT,         \* event -> [time, mag] of the pending event
    TTRIG_EVENT_TRACK_DICT,  \* event -> log of [day, mag]
    StarterSamp,             \* starting state sampler
    h0State,
    h0remdur,
    jJ,                      \* index of the next loop iteration
    EvTrigTimes,
    EvTrigMags,
    H0_REAL,                 \* row index -> [tmax, tmin, pre]
    seedLog,                 \* history: every seed a sampler was created with
    writes,                  \* history: row index -> number of assignments
    spell,                   \* history: the spell in progress
    completed,               \* history: spells that ran from toggle to toggle
    reports,                 \* the event summary files of the realization that
                             \* runs or has just returned
    inputCase,               \* the parameter tables the realizations are built from
    coord,                   \* the coordinator's check of the returned statuses
    ctor,                    \* one constructor call and its outcome
    ow                       \* the climatology tables in use and one run of
                             \* the residual and temperature functions

vars == << pc, RealNum, results, DDRY_SPELL_SAMP, DWET_SPELL_SAMP, DP_DEPTH_SAMP,
           ST_PDEPTH, EPS_NORM_SAMP, EPSI_2, CHI_M0,
           CHI_L1M0, ACT_EVENT_DICT, NEXT_EVENT_DICT, TTRIG_EVENT_TRACK_DICT,
           StarterSamp, h0State, h0remdur, jJ, EvTrigTimes, EvTrigMags, H0_REAL,
           seedLog, writes, spell, completed, reports, inputCase, coord, ctor, ow >>

\* the variables of the coordinator's check, of a single constructor call and
\* of the calls of the residual and temperature functions
callVars == << coord, ctor, ow >>

-----------------------------------------------------------------------------
(* Bounds of the model *)

\* number of simulated days of one realization (END_DATE - START_DATE + 1)
TOTAL_DAYS == 4
\* number of realizations the worker's chunk holds (--num_real)
NumReal == 2
\* day of the year 2024 of START_DATE
StartDoY == 89

\* variates the negative binomial draws before the location shift
NBDraws == {0, 2}
\* variates of the generalized gamma, 1/1000 mm: the location of the
\* distribution (its infimum, 0.255 mm in every month), a depth below every
\* monthly maximum and a depth above every monthly maximum
GammaDraws == {255, 9000, 60000}
\* uniform variates of the starting state sampler, tenths
UniformDraws == {5, 6}
\* Poisson variates, years
PoissonDraws == {0, 1}
\* the event classes modelled, as positions in EVENT_KEYS: "2-year", "50-year"
EVENT_KEYS == {1, 5}

-----------------------------------------------------------------------------
(* EAAWG_Inputs.py *)

WET_STATE == "wet"
DRY_STATE == "dry"
MonthInts == 1..12

\* location parameter (third entry) of DRY_SPELL_PARAMS / WET_SPELL_PARAMS
DrySpellLoc(mon) == 2
WetSpellLoc(mon) == 1

MON_MAX_PP == << 23500, 22900, 33400, 31200, 39600, 36300,
                 38600, 35000, 46100, 46100, 35700, 24300 >>

\* EVENT_DICT: [years, low, high] by position in EVENT_KEYS
EVENT_DICT == << [yrs |-> 2,   low |-> 96000,  high |-> 153748],
                 [yrs |-> 5,   low |-> 141000, high |-> 247632],
                 [yrs |-> 10,  low |-> 179000, high |-> 255705],
                 [yrs |-> 25,  low |-> 236000, high |-> 290900],
                 [yrs |-> 50,  low |-> 285000, high |-> 415450],
                 [yrs |-> 100, low |-> 343000, high |-> 498139] >>

\* A parameter as the constructors see it: its Python type and its value
\* (1/1000 for a float, units for an int)
PyFloat(x) == [type |-> "float", val |-> x]
PyInt(x) == [type |-> "int", val |-> x]

\* One entry of PRE_DEPTH_PARAMS (a, c, scale), of DRY_SPELL_PARAMS (N, P) and
\* of EVENT_DICT (years, low, high) as the file holds them: month 1, "2-year"
ValidInputs ==
    [gamma |-> << PyFloat(784), PyFloat(1348), PyFloat(5611) >>,
     nb    |-> << PyFloat(3915), PyFloat(298) >>,
     event |-> << PyInt(2), PyFloat(96000), PyFloat(153748) >>]

AVE_WET_TMAX_ADD == 5099
AVE_DRY_TMAX_ADD == 6942
AVE_WET_TMIN_ADD == 852
AVE_DRY_TMIN_ADD == 842

A_DATA_LIST == << <<562, 205>>, <<-35, 683>> >>
B_DATA_LIST == << <<741, 0>>, <<177, 721>> >>

\* cTime of loop index j: day of the year and calendar month (2024, a leap year)
CumDays == << 31, 60, 91, 121, 152, 182, 213, 244, 274, 305, 335, 366 >>
DayOfYear(j) == StartDoY + j
MonthOf(j) == CHOOSE m \in MonthInts :
                 /\ DayOfYear(j) <= CumDays[m]
                 /\ (m = 1 \/ DayOfYear(j) > CumDays[m - 1])

-----------------------------------------------------------------------------
(* EAAWGmp.py, module level *)

START_REAL == 1
PDEPTH_DEF_SEED == 21342
STD_NORM_DEF_SEED == 31344
WET_STA_DEF_SEED == 41446
DRY_STA_DEF_SEED == 51548
EVENT_RECUR_DEF_SEED == 62379
EVENT_MAG_DEF_SEED == 73871

-----------------------------------------------------------------------------
(* Floating point values *)

NaN == 99999999
PInf == 88888888
NInf == -88888888
IsNaN(x) == x = NaN
IsInf(x) == x \in {PInf, NInf}
IsFinite(x) == ~IsNaN(x) /\ ~IsInf(x)

\* product of two fixed point numbers with three decimals
Mul(a, b) == (a * b) \div 1000

Abs(x) == IF x < 0 THEN -x ELSE x

\* the step of the float32 grid at magnitude a
RECURSIVE Float32Step(_)
Float32Step(a) == IF a < 2000 THEN 1 ELSE 2 * Float32Step(a \div 2)

\* the conversion of an assignment into the float32 buffer: round to nearest,
\* ties to even
Float32(x) ==
    IF ~IsFinite(x) THEN x
    ELSE LET s == Float32Step(Abs(x))
             q == x \div s
             r == x % s
         IN  IF 2 * r < s THEN q * s
             ELSE IF 2 * r > s THEN (q + 1) * s
             ELSE IF q % 2 = 0 THEN q * s ELSE (q + 1) * s

RECURSIVE SumOver(_, _)
SumOver(S, f) == IF S = {} THEN 0
                 ELSE LET x == CHOOSE y \in S : TRUE
                      IN  f[x] + SumOver(S \ {x}, f)

-----------------------------------------------------------------------------
(* Samplers: np.random.RandomState(seed=...) *)

NewSampler(seed) == [seed |-> seed, pos |-> 0]
Draw(samp) == [samp EXCEPT !.pos = @ + 1]

-----------------------------------------------------------------------------
(* EAAWG_SpellLength.py, EAAWG_PrecipDepth.py *)

WD_THRESH == 255

\* NegBinomial.ranval1: the variate v of nbinom shifted by the location
NegBinomial_ranval1_NoLoc(loc, v) == v
NegBinomial_ranval1(loc, v) == v + loc

\* Gamma2PCont.ranval1: the variate numd clamped to [thresh, maxes[mon]]
Gamma2PCont_ranval1(numd, mon) ==
    LET capped == IF numd > MON_MAX_PP[mon] THEN MON_MAX_PP[mon] ELSE numd
    IN  IF capped < WD_THRESH THEN WD_THRESH ELSE capped

-----------------------------------------------------------------------------
(* The constructors: the checks of __init__ in their order.  The result is the
   exception raised or "object"; the scipy distributions the constructors
   freeze check no argument when they are frozen. *)

\* the number a typed value stands for, 1/1000
Num(v) == IF v.type = "int" THEN 1000 * v.val ELSE v.val
isinstance(v, type) == v.type = type

\* Gamma2PCont.__init__(a, c, loc, scale); loc is checked nowhere
Gamma2PCont_init(a, c, scale) ==
    IF ~isinstance(a, "float") THEN "CreateDistError"
    ELSE IF ~isinstance(c, "float") THEN "CreateDistError"
    ELSE IF Num(a) <= 0 THEN "CreateDistError"
    ELSE IF Num(c) = 0 THEN "CreateDistError"
    ELSE "object"

\* NegBinomial.__init__(N, P, location)
NegBinomial_init(N, P) ==
    IF ~isinstance(N, "float") THEN "CreateDistError"
    ELSE IF ~isinstance(P, "float") THEN "CreateDistError"
    ELSE IF Num(N) <= 0 \/ Num(N) > 1000000 THEN "CreateDistError"
    ELSE IF Num(P) <= 0 \/ Num(P) >= 10000 THEN "CreateDistError"
    ELSE "object"

\* ExtremeEvent.__init__(aveRecurYrs, lowMag, highMag): the second type test
\* is again on lowMag
ExtremeEvent_init(aveRecurYrs, lowMag, highMag) ==
    IF ~isinstance(lowMag, "float") THEN "CreateEventError"
    ELSE IF ~isinstance(lowMag, "float") THEN "CreateEventError"
    ELSE IF ~isinstance(aveRecurYrs, "int") THEN "CreateEventError"
    ELSE IF Num(lowMag) >= Num(highMag) THEN "CreateEventError"
    ELSE IF Num(aveRecurYrs) < 2000 THEN "CreateEventError"
    ELSE "object"

-----------------------------------------------------------------------------
(* EAAWG_Events.py *)

QDAYS_PER_YEAR == 1461

\* ExtremeEvent.nextEventDays: Poisson years to (quarter) days
nextEventDays(offsetYrs) == offsetYrs * QDAYS_PER_YEAR

\* ExtremeEvent.nextEventDailyMag: uniform(loc=lowMag, scale=highMag-lowMag)
\* on an EventMagSampler; the uniform variate (tenths) at position pos of the
\* stream of seed
UniformStream == << 5, 6, 2, 9, 0, 7, 3 >>
uniform_rvs(samp) == UniformStream[((samp.seed + samp.pos) % Len(UniformStream)) + 1]
\* lowMag and highMag the event object of class ev was constructed with: the
\* entry of EVENT_DICT, for "2-year" as the input case holds it
EventMags(ev) ==
    IF ev = 1
    THEN [low |-> Num(inputCase.event[2]), high |-> Num(inputCase.event[3])]
    ELSE [low |-> EVENT_DICT[ev].low, high |-> EVENT_DICT[ev].high]
nextEventDailyMag(ev, samp) ==
    EventMags(ev).low
    + (uniform_rvs(samp) * (EventMags(ev).high - EventMags(ev).low)) \div 10

\* setEvents: one recurrence and one magnitude sampler per event class
setEvents(recurSeed, magSeed) ==
    [ev \in EVENT_KEYS |-> [recur |-> NewSampler(recurSeed + ev),
                            mag   |-> NewSampler(magSeed + ev)]]

\* updateTriggeredEvent, line 322: trigger time of the re-armed event
nextTrigTime_NoElapsed(curElapsDays, curTrigTime) == curTrigTime
nextTrigTime_Yesterday(curElapsDays, curTrigTime) ==
    4 * (curElapsDays - 1) + curTrigTime
nextTrigTime(curElapsDays, curTrigTime) == 4 * curElapsDays + curTrigTime

\* updateTriggeredEvent, lines 319-320: the triggered event is appended to
\* the log of its class with the date of the day and the pending magnitude
logTriggered_DayBefore(trigList, curTime, mag) ==
    Append(trigList, [day |-> curTime - 1, mag |-> mag])
logTriggered_AtHead(trigList, curTime, mag) ==
    << [day |-> curTime, mag |-> mag] >> \o trigList
logTriggered(trigList, curTime, mag) ==
    Append(trigList, [day |-> curTime, mag |-> mag])

\* the trigger test of the day loop, line 209
EventDue_DayLate(trigTime, j) == trigTime + 4 < 4 * j
EventDue_SameDayOnly(trigTime, j) == trigTime < 4 * j /\ trigTime >= 4 * (j - 1)
EventDue_NotAfter(trigTime, j) == trigTime <= 4 * j
EventDue(trigTime, j) == trigTime < 4 * j

\* outputBigEvents: the positions of "50-year" and "100-year" in EVENT_KEYS
Key50 == 5
Key100 == 6

\* "%5.1f" of a depth: the nearest tenth of a mm
Fmt51(x) == (x + 50) \div 100
\* strftime("%Y-%m-%d") of StartTS + Timedelta(days=...): the day index of a
\* time in quarter days
DateOf(qdays) == qdays \div 4

\* lines 412-422
ShouldOutput(track) ==
    \/ Key50 \in EVENT_KEYS /\ Len(track[Key50]) > 0
    \/ Key100 \in EVENT_KEYS /\ Len(track[Key100]) > 0

\* lines 424-447: the contents of the summary file of realization r
EventsSummary(r, track, pending) ==
    [real |-> r,
     body |-> [evName \in EVENT_KEYS |->
                 LET trigList == track[evName]
                 IN  IF Len(trigList) > 0
                     THEN [triggered |-> [i \in 1..Len(trigList) |->
                                            [date |-> trigList[i].day,
                                             mm |-> Fmt51(trigList[i].mag)]],
                           first |-> << >>]
                     ELSE [triggered |-> << >>,
                           first |-> << [date |-> DateOf(pending[evName].time),
                                         mm |-> Fmt51(pending[evName].mag)] >>]]]

\* outputBigEvents: the summary files of realization r after the call; files
\* are those it had before (none: delPrevOutputs has removed the files of
\* earlier runs, and a realization index is run once)
outputBigEvents_Always(files, r, track, pending) ==
    Append(files, EventsSummary(r, track, pending))
outputBigEvents(files, r, track, pending) ==
    IF ShouldOutput(track)
    THEN Append(files, EventsSummary(r, track, pending))
    ELSE files

-----------------------------------------------------------------------------
(* EAAWG_OtherWeather.py *)

SIGMA_THRESH == 4000
MIN_DAILY_DELTA == 4000
EPS_FALLBACK == 250
CHI_FALLBACK == 1000

\* The smoothed climatology tables OW_WET_AVE, OW_WET_STD, OW_DRY_AVE and
\* OW_DRY_STD of the input module, by day of the year: finite curves with a
\* slow seasonal rise stand for the tables read from the input files.
OW_WET_AVE(d) == [Tmax |-> 14000 + 20 * d, Tmin |-> 6000 + 20 * d]
OW_WET_STD(d) == IF ow.curves = "wetStdNaN" THEN [Tmax |-> NaN, Tmin |-> NaN]
                 ELSE IF ow.curves = "wetStdInf" THEN [Tmax |-> PInf, Tmin |-> PInf]
                 ELSE [Tmax |-> 5000, Tmin |-> 4500]
OW_DRY_AVE(d) == [Tmax |-> 17000 + 20 * d, Tmin |-> 3000 + 20 * d]
OW_DRY_STD(d) == IF ow.curves = "dryStdInf" THEN [Tmax |-> PInf, Tmin |-> PInf]
                 ELSE [Tmax |-> 6000, Tmin |-> 5500]
\* the tables as the input files hold them, and tables whose standard
\* deviation curve of one state holds NaN or Inf entries
CurveCases == {"finite", "wetStdNaN", "wetStdInf", "dryStdInf"}

\* constructArrays: the curves with the bias constants added
WET_TMAX_AVE(d) == OW_WET_AVE(d).Tmax + AVE_WET_TMAX_ADD
WET_TMIN_AVE(d) == OW_WET_AVE(d).Tmin + AVE_WET_TMIN_ADD
WET_TMAX_STD(d) == OW_WET_STD(d).Tmax
WET_TMIN_STD(d) == OW_WET_STD(d).Tmin
DRY_TMAX_AVE(d) == OW_DRY_AVE(d).Tmax + AVE_DRY_TMAX_ADD
DRY_TMIN_AVE(d) == OW_DRY_AVE(d).Tmin + AVE_DRY_TMIN_ADD
DRY_TMAX_STD(d) == OW_DRY_STD(d).Tmax
DRY_TMIN_STD(d) == OW_DRY_STD(d).Tmin
A_DATA == A_DATA_LIST
B_DATA == B_DATA_LIST

\* StdNormal.ranval1 on an ErrorTSampler: the variate at position pos of the
\* stream of seed
EpsStream == << 8000, -3000, NaN, 500, PInf, -9000, 0 >>
StdNormal_ranval1(samp) == EpsStream[((samp.seed + samp.pos) % Len(EpsStream)) + 1]

\* setupDistsSamples: two more samplers appended to the module level list
setupDistsSamples(sampList, seed_std_norm) ==
    Append(Append(sampList, NewSampler(seed_std_norm)), NewSampler(seed_std_norm))

\* updateTracker: the innovations drawn from the first two samplers of the list
EpsCheck(x) == IF IsNaN(x) \/ IsInf(x) THEN EPS_FALLBACK ELSE x
updateTracker_Eps(sampList) ==
    << EpsCheck(StdNormal_ranval1(sampList[1])),
       EpsCheck(StdNormal_ranval1(sampList[2])) >>
updateTracker_Samp(sampList) ==
    [i \in DOMAIN sampList |-> IF i \in {1, 2} THEN Draw(sampList[i]) ELSE sampList[i]]

\* calcCHI0: CHI_L1M0 . A + EPSI_2 . B, checked and clipped
ClipSigma_UpperOnly(x) == IF x > SIGMA_THRESH THEN SIGMA_THRESH ELSE x
ClipSigma(x) == IF x > SIGMA_THRESH THEN SIGMA_THRESH
                ELSE IF x < -SIGMA_THRESH THEN -SIGMA_THRESH ELSE x
ChiCheck(x) == IF IsNaN(x) \/ IsInf(x) THEN CHI_FALLBACK ELSE x
MatMulRaises(chiL1, eps) == \E i \in {1, 2} : ~IsFinite(chiL1[i]) \/ ~IsFinite(eps[i])
calcCHI0(chiL1, eps) ==
    LET prod == IF MatMulRaises(chiL1, eps)
                THEN << CHI_FALLBACK, CHI_FALLBACK >>
                ELSE [j \in {1, 2} |->
                        Mul(chiL1[1], A_DATA[1][j]) + Mul(chiL1[2], A_DATA[2][j])
                        + Mul(eps[1], B_DATA[1][j]) + Mul(eps[2], B_DATA[2][j])]
    IN  << ClipSigma(ChiCheck(prod[1])), ClipSigma(ChiCheck(prod[2])) >>

\* calculateUpdate, lines 196-232: the mapped temperatures of the day
\* float64 arithmetic under np.seterr(all='raise'): a NaN operand gives NaN
\* and an Inf operand gives Inf without an error, 0 * Inf and Inf - Inf raise
\* FloatingPointError
FPError == 77777777
Sign(x) == IF x > 0 THEN 1 ELSE IF x < 0 THEN -1 ELSE 0
FMul(a, b) ==
    IF IsNaN(a) \/ IsNaN(b) THEN NaN
    ELSE IF IsInf(a) \/ IsInf(b)
         THEN (IF a = 0 \/ b = 0 THEN FPError
               ELSE IF Sign(a) * Sign(b) > 0 THEN PInf ELSE NInf)
         ELSE Mul(a, b)
FAdd(a, b) ==
    IF IsNaN(a) \/ IsNaN(b) THEN NaN
    ELSE IF IsInf(a) /\ IsInf(b) THEN (IF a = b THEN a ELSE FPError)
    ELSE IF IsInf(a) THEN a
    ELSE IF IsInf(b) THEN b
    ELSE a + b
\* the try block of one temperature: chi * std + ave, FPError when it raises
TryMap(chi, std, ave) ==
    LET prod == FMul(chi, std)
    IN  IF prod = FPError THEN FPError ELSE FAdd(prod, ave)
MapTemp(chi, std, ave) ==
    LET r == TryMap(chi, std, ave) IN IF r = FPError THEN ave ELSE r
TempCheck(x, dryAve) == IF IsNaN(x) \/ IsInf(x) THEN dryAve ELSE x
mappedMaxT(chi, DayOYear, state) ==
    TempCheck(IF state = WET_STATE
              THEN MapTemp(chi[1], WET_TMAX_STD(DayOYear), WET_TMAX_AVE(DayOYear))
              ELSE MapTemp(chi[1], DRY_TMAX_STD(DayOYear), DRY_TMAX_AVE(DayOYear)),
              DRY_TMAX_AVE(DayOYear))
mappedMinT(chi, DayOYear, state) ==
    TempCheck(IF state = WET_STATE
              THEN MapTemp(chi[2], WET_TMIN_STD(DayOYear), WET_TMIN_AVE(DayOYear))
              ELSE MapTemp(chi[2], DRY_TMIN_STD(DayOYear), DRY_TMIN_AVE(DayOYear)),
              DRY_TMIN_AVE(DayOYear))

\* calculateUpdate, lines 233-237: the minimum daily difference
enforceDelta(passMaxT, passMinT) ==
    IF (passMaxT - passMinT) < MIN_DAILY_DELTA
    THEN [tmax |-> passMinT + MIN_DAILY_DELTA, tmin |-> passMinT]
    ELSE [tmax |-> passMaxT, tmin |-> passMinT]
calculateUpdate_DryCurves(chi, DayOYear, state) ==
    enforceDelta(mappedMaxT(chi, DayOYear, DRY_STATE),
                 mappedMinT(chi, DayOYear, DRY_STATE))
calculateUpdate(chi, DayOYear, state) ==
    enforceDelta(mappedMaxT(chi, DayOYear, state), mappedMinT(chi, DayOYear, state))

-----------------------------------------------------------------------------
(* EAAWG_HighRealResults.py *)

createSimStructures(TotDays) ==
    [t \in 0..(TotDays - 1) |-> [tmax |-> 0, tmin |-> 0, pre |-> 0]]
assignDryDep_Threshold(H, tIndex) == [H EXCEPT ![tIndex].pre = Float32(WD_THRESH)]
assignDryDep(H, tIndex) == [H EXCEPT ![tIndex].pre = Float32(0)]
assignWetDep(H, tIndex, pVal) == [H EXCEPT ![tIndex].pre = Float32(pVal)]
assignTemp(H, tIndex, MaxT, MinT) ==
    [H EXCEPT ![tIndex].tmax = Float32(MaxT), ![tIndex].tmin = Float32(MinT)]

-----------------------------------------------------------------------------
(* EAAWG_Dists_Samples.py *)

\* setDistributions followed by setTrackers: twelve samplers of one kind, all
\* created with the same seed and each drawn once
setDistributions_Samp(seed) == [m \in MonthInts |-> Draw(NewSampler(seed))]
\* sampleAll: every sampler of one kind is drawn once more
sampleAll_Samp_MarchOnly(sampDict) ==
    [m \in MonthInts |-> IF m = 3 THEN Draw(sampDict[m]) ELSE sampDict[m]]
sampleAll_Samp(sampDict) == [m \in MonthInts |-> Draw(sampDict[m])]
\* the tracked sample of the month that is read
Tracked(mon, val) == [mon |-> mon, val |-> val]

-----------------------------------------------------------------------------
(* EAAWGmp.py, WG_Worker_Main *)

\* for jJ in range(TOTAL_DAYS), line 189
LoopDone_DayShort(j) == j >= TOTAL_DAYS - 1
LoopDone(j) == j >= TOTAL_DAYS

\* the toggle test, lines 201 and 232
SpellOver_BelowZero(remdur) == remdur < 0
SpellOver(remdur) == remdur <= 0

\* lines 217-225: the depth of a wet day that stays wet
wetDayDepth_AddBase(eventTriggered, eventTrigMag, depth) ==
    IF eventTriggered THEN depth + eventTrigMag ELSE depth
wetDayDepth_NoElse(eventTriggered, eventTrigMag, depth) == eventTrigMag
wetDayDepth(eventTriggered, eventTrigMag, depth) ==
    IF eventTriggered THEN eventTrigMag ELSE depth

\* the last realization index of the chunk the worker was given
LastReal == START_REAL + NumReal - 1

\* no coordinator check and no constructor call in progress
NoCoord == [num_real |-> 0, results |-> << >>, done |-> FALSE, exit |-> 0,
            pest |-> FALSE, reals |-> {}, NumSuccess |-> 0]
NoCtor == [cls |-> "none", args |-> << >>, out |-> "none"]
NoOw == [pc |-> "none", curves |-> "finite", day |-> 0,
         CHI_L1M0 |-> << 1000, 1000 >>, EPSI_2 |-> << 1000, 1000 >>,
         CHI_M0 |-> << 1000, 1000 >>, fellBack |-> FALSE, state |-> "none",
         tmax |-> 0, tmin |-> 0]

\* the worker process before its first realization
WorkerInit ==
    /\ pc = "ready"
    /\ RealNum = START_REAL
    /\ results = << >>
    /\ DDRY_SPELL_SAMP = << >>
    /\ DWET_SPELL_SAMP = << >>
    /\ DP_DEPTH_SAMP = << >>
    /\ ST_PDEPTH = << >>
    /\ EPS_NORM_SAMP = << >>
    /\ EPSI_2 = << 1000, 1000 >>
    /\ CHI_M0 = << 1000, 1000 >>
    /\ CHI_L1M0 = << 1000, 1000 >>
    /\ ACT_EVENT_DICT = << >>
    /\ NEXT_EVENT_DICT = << >>
    /\ TTRIG_EVENT_TRACK_DICT = << >>
    /\ StarterSamp = << >>
    /\ h0State = "none"
    /\ h0remdur = 0
    /\ jJ = 0
    /\ EvTrigTimes = << >>
    /\ EvTrigMags = << >>
    /\ H0_REAL = << >>
    /\ seedLog = {}
    /\ writes = << >>
    /\ spell = [start |-> -1, drawn |-> 0, state |-> "none"]
    /\ completed = {}
    /\ reports = << >>

Init ==
    /\ WorkerInit
    /\ inputCase = ValidInputs
    /\ coord = NoCoord
    /\ ctor = NoCtor
    /\ ow = NoOw

\* lines 139-165 and setEvents: the seeds of the samplers of realization r
SeedsOf(r) ==
    {[real |-> r, base |-> "PDSeed", role |-> "depth", seed |-> PDEPTH_DEF_SEED + r],
     [real |-> r, base |-> "PDSeed", role |-> "start", seed |-> (PDEPTH_DEF_SEED + r) - 1],
     [real |-> r, base |-> "SNSeed", role |-> "stdnorm", seed |-> STD_NORM_DEF_SEED + r],
     [real |-> r, base |-> "WSLSeed", role |-> "wetspell", seed |-> WET_STA_DEF_SEED + r],
     [real |-> r, base |-> "DSLSeed", role |-> "dryspell", seed |-> DRY_STA_DEF_SEED + r]}
    \cup {[real |-> r, base |-> "EVRecurSeed", role |-> << "recur", ev >>,
           seed |-> (EVENT_RECUR_DEF_SEED + r) + ev] : ev \in EVENT_KEYS}
    \cup {[real |-> r, base |-> "EVMagSeed", role |-> << "mag", ev >>,
           seed |-> (EVENT_MAG_DEF_SEED + r) + ev] : ev \in EVENT_KEYS}

\* lines 157 and 162: the call of the set-up in which a constructor raises on
\* the input case, "none" if every constructor returns an object.  The dry
\* spell distribution of month 1 is the first object setDistributions
\* constructs, the depth distributions follow the spell distributions, and
\* "2-year" is the first class of setEvents.
SetupRaisesIn(case) ==
    IF NegBinomial_init(case.nb[1], case.nb[2]) # "object"
    THEN "setDistributions, spell"
    ELSE IF Gamma2PCont_init(case.gamma[1], case.gamma[2], case.gamma[3]) # "object"
    THEN "setDistributions, depth"
    ELSE IF ExtremeEvent_init(case.event[1], case.event[2], case.event[3]) # "object"
    THEN "setEvents"
    ELSE "none"

\* lines 139-187: the set-up of one realization
Setup ==
    /\ pc = "ready"
    /\ SetupRaisesIn(inputCase) = "none"
    /\ \E nbd \in NBDraws, nbw \in NBDraws, g \in GammaDraws, TestVal \in UniformDraws,
          ek \in [EVENT_KEYS -> PoissonDraws] :
        LET pdSampSeed == PDEPTH_DEF_SEED + RealNum
            sndSampSeed == STD_NORM_DEF_SEED + RealNum
            wetSSampSeed == WET_STA_DEF_SEED + RealNum
            drySSampSeed == DRY_STA_DEF_SEED + RealNum
            evrSSampSeed == EVENT_RECUR_DEF_SEED + RealNum
            evmSSampSeed == EVENT_MAG_DEF_SEED + RealNum
            curMonth == MonthOf(0)
            drySpell == NegBinomial_ranval1(DrySpellLoc(curMonth), nbd)
            wetSpell == NegBinomial_ranval1(WetSpellLoc(curMonth), nbw)
            depth == Gamma2PCont_ranval1(g, curMonth)
            sampList == setupDistsSamples(EPS_NORM_SAMP, sndSampSeed)
            events == setEvents(evrSSampSeed, evmSSampSeed)
            nextEv == [ev \in EVENT_KEYS |->
                         [time |-> nextEventDays(ek[ev]),
                          mag |-> nextEventDailyMag(ev, events[ev].mag)]]
            startWet == TestVal > 5
        IN  /\ DDRY_SPELL_SAMP' = setDistributions_Samp(drySSampSeed)
            /\ DWET_SPELL_SAMP' = setDistributions_Samp(wetSSampSeed)
            /\ DP_DEPTH_SAMP' = setDistributions_Samp(pdSampSeed)
            /\ ST_PDEPTH' = Tracked(curMonth, depth)
            /\ EPS_NORM_SAMP' = updateTracker_Samp(sampList)
            /\ EPSI_2' = updateTracker_Eps(sampList)
            /\ ACT_EVENT_DICT' = [ev \in EVENT_KEYS |->
                                    [recur |-> Draw(events[ev].recur),
                                     mag |-> Draw(events[ev].mag)]]
            /\ NEXT_EVENT_DICT' = nextEv
            /\ TTRIG_EVENT_TRACK_DICT' = [ev \in EVENT_KEYS |-> << >>]
            /\ StarterSamp' = Draw(NewSampler(pdSampSeed - 1))
            /\ h0State' = IF startWet THEN WET_STATE ELSE DRY_STATE
            /\ h0remdur' = IF startWet THEN wetSpell ELSE drySpell
            /\ EvTrigTimes' = [ev \in EVENT_KEYS |-> nextEv[ev].time]
            /\ EvTrigMags' = [ev \in EVENT_KEYS |-> nextEv[ev].mag]
            /\ H0_REAL' = createSimStructures(TOTAL_DAYS)
            /\ jJ' = 0
            /\ seedLog' = seedLog \cup SeedsOf(RealNum)
            /\ writes' = [t \in 0..(TOTAL_DAYS - 1) |-> [pre |-> 0, temp |-> 0]]
            /\ spell' = [start |-> -1,
                         drawn |-> IF startWet THEN wetSpell ELSE drySpell,
                         state |-> IF startWet THEN WET_STATE ELSE DRY_STATE]
            /\ completed' = {}
            /\ reports' = << >>
    /\ pc' = "loop"
    /\ UNCHANGED << RealNum, results, CHI_M0, CHI_L1M0, inputCase, callVars >>

\* lines 155-162: a constructor raises; the exception leaves WG_Worker_Main
\* with the module level state the calls before it have assigned
SetupRaise ==
    /\ pc = "ready"
    /\ SetupRaisesIn(inputCase) # "none"
    /\ LET at == SetupRaisesIn(inputCase)
           pdSampSeed == PDEPTH_DEF_SEED + RealNum
           sndSampSeed == STD_NORM_DEF_SEED + RealNum
           wetSSampSeed == WET_STA_DEF_SEED + RealNum
           drySSampSeed == DRY_STA_DEF_SEED + RealNum
           sampList == setupDistsSamples(EPS_NORM_SAMP, sndSampSeed)
           made == IF at = "setDistributions, spell" THEN {}
                   ELSE IF at = "setDistributions, depth" THEN {"WSLSeed", "DSLSeed"}
                   ELSE {"WSLSeed", "DSLSeed", "PDSeed", "SNSeed"}
       IN  /\ DDRY_SPELL_SAMP' =
                 IF at = "setDistributions, spell" THEN DDRY_SPELL_SAMP
                 ELSE IF at = "setDistributions, depth"
                      THEN [m \in MonthInts |-> NewSampler(drySSampSeed)]
                      ELSE setDistributions_Samp(drySSampSeed)
           /\ DWET_SPELL_SAMP' =
                 IF at = "setDistributions, spell" THEN DWET_SPELL_SAMP
                 ELSE IF at = "setDistributions, depth"
                      THEN [m \in MonthInts |-> NewSampler(wetSSampSeed)]
                      ELSE setDistributions_Samp(wetSSampSeed)
           /\ DP_DEPTH_SAMP' = IF at = "setEvents"
                               THEN setDistributions_Samp(pdSampSeed)
                               ELSE DP_DEPTH_SAMP
           /\ \E g \in GammaDraws :
                 ST_PDEPTH' = IF at = "setEvents"
                              THEN Tracked(MonthOf(0), Gamma2PCont_ranval1(g, MonthOf(0)))
                              ELSE ST_PDEPTH
           /\ EPS_NORM_SAMP' = IF at = "setEvents" THEN updateTracker_Samp(sampList)
                               ELSE EPS_NORM_SAMP
           /\ EPSI_2' = IF at = "setEvents" THEN updateTracker_Eps(sampList) ELSE EPSI_2
           /\ seedLog' = seedLog \cup
                 {e \in SeedsOf(RealNum) :
                    e.base \in made /\ (e.base = "PDSeed" => e.seed = pdSampSeed)}
    /\ pc' = "raised"
    /\ UNCHANGED << RealNum, results, CHI_M0, CHI_L1M0, ACT_EVENT_DICT, NEXT_EVENT_DICT,
                    TTRIG_EVENT_TRACK_DICT, StarterSamp, h0State, h0remdur, jJ,
                    EvTrigTimes, EvTrigMags, H0_REAL, writes, spell, completed,
                    reports, inputCase, callVars >>

\* lines 189-246: one iteration of the day loop
Day ==
    /\ pc = "loop"
    /\ ~LoopDone(jJ)
    /\ \E nbd \in NBDraws, nbw \in NBDraws, g \in GammaDraws :
        LET curMonth == MonthOf(jJ)
            curDayoYr == DayOfYear(jJ)
            drySpell == NegBinomial_ranval1(DrySpellLoc(curMonth), nbd)
            wetSpell == NegBinomial_ranval1(WetSpellLoc(curMonth), nbw)
            depth == Gamma2PCont_ranval1(g, curMonth)
            eps == updateTracker_Eps(EPS_NORM_SAMP)
            toggle == SpellOver(h0remdur)
            wetStay == h0State = WET_STATE /\ ~toggle
            trig == IF wetStay
                    THEN {ev \in EVENT_KEYS : EventDue(EvTrigTimes[ev], jJ)}
                    ELSE {}
        IN  \E ek \in [trig -> PoissonDraws] :
            LET eventTriggered == trig # {}
                eventTrigMag == SumOver(trig, EvTrigMags)
                nextEv == [ev \in EVENT_KEYS |->
                             IF ev \in trig
                             THEN [time |-> nextTrigTime(jJ, nextEventDays(ek[ev])),
                                   mag |-> nextEventDailyMag(ev, ACT_EVENT_DICT[ev].mag)]
                             ELSE NEXT_EVENT_DICT[ev]]
                newState == IF toggle
                            THEN (IF h0State = WET_STATE THEN DRY_STATE ELSE WET_STATE)
                            ELSE h0State
                newRem == IF toggle
                          THEN (IF newState = DRY_STATE THEN drySpell ELSE wetSpell)
                          ELSE h0remdur
                H1 == IF newState = DRY_STATE
                      THEN assignDryDep(H0_REAL, jJ)
                      ELSE IF toggle
                           THEN assignWetDep(H0_REAL, jJ, depth)
                           ELSE assignWetDep(H0_REAL, jJ,
                                     wetDayDepth(eventTriggered, eventTrigMag, depth))
                chi == calcCHI0(CHI_L1M0, eps)
                temp == calculateUpdate(chi, curDayoYr, newState)
            IN  /\ DDRY_SPELL_SAMP' = sampleAll_Samp(DDRY_SPELL_SAMP)
                /\ DWET_SPELL_SAMP' = sampleAll_Samp(DWET_SPELL_SAMP)
                /\ DP_DEPTH_SAMP' = sampleAll_Samp(DP_DEPTH_SAMP)
                /\ ST_PDEPTH' = Tracked(curMonth, depth)
                /\ EPS_NORM_SAMP' = updateTracker_Samp(EPS_NORM_SAMP)
                /\ EPSI_2' = eps
                /\ ACT_EVENT_DICT' = [ev \in EVENT_KEYS |->
                                        IF ev \in trig
                                        THEN [recur |-> Draw(ACT_EVENT_DICT[ev].recur),
                                              mag |-> Draw(ACT_EVENT_DICT[ev].mag)]
                                        ELSE ACT_EVENT_DICT[ev]]
                /\ NEXT_EVENT_DICT' = nextEv
                /\ TTRIG_EVENT_TRACK_DICT' =
                       [ev \in EVENT_KEYS |->
                          IF ev \in trig
                          THEN logTriggered(TTRIG_EVENT_TRACK_DICT[ev], jJ,
                                            NEXT_EVENT_DICT[ev].mag)
                          ELSE TTRIG_EVENT_TRACK_DICT[ev]]
                /\ EvTrigTimes' = IF eventTriggered
                                  THEN [ev \in EVENT_KEYS |-> nextEv[ev].time]
                                  ELSE EvTrigTimes
                /\ EvTrigMags' = IF eventTriggered
                                 THEN [ev \in EVENT_KEYS |-> nextEv[ev].mag]
                                 ELSE EvTrigMags
                /\ h0State' = newState
                /\ h0remdur' = newRem - 1
                /\ H0_REAL' = assignTemp(H1, jJ, temp.tmax, temp.tmin)
                /\ CHI_M0' = chi
                /\ CHI_L1M0' = chi
                /\ writes' = [writes EXCEPT ![jJ].pre = @ + 1, ![jJ].temp = @ + 1]
                /\ spell' = IF toggle
                            THEN [start |-> jJ, drawn |-> newRem, state |-> newState]
                            ELSE spell
                /\ completed' = IF toggle /\ spell.start >= 0
                                THEN completed \cup
                                     {[state |-> spell.state, drawn |-> spell.drawn,
                                       days |-> jJ - spell.start]}
                                ELSE completed
    /\ jJ' = jJ + 1
    /\ UNCHANGED << pc, RealNum, results, StarterSamp, seedLog, reports, inputCase,
                    callVars >>

\* lines 248-255: the outputs are written and the realization returns 0
OutputReturn ==
    /\ pc = "loop"
    /\ LoopDone(jJ)
    /\ reports' = outputBigEvents(reports, RealNum, TTRIG_EVENT_TRACK_DICT,
                                  NEXT_EVENT_DICT)
    /\ results' = Append(results, 0)
    /\ RealNum' = IF RealNum < LastReal THEN RealNum + 1 ELSE RealNum
    /\ pc' = IF RealNum < LastReal THEN "ready" ELSE "finished"
    /\ UNCHANGED << DDRY_SPELL_SAMP, DWET_SPELL_SAMP, DP_DEPTH_SAMP, ST_PDEPTH, EPS_NORM_SAMP, EPSI_2, CHI_M0, CHI_L1M0,
                    ACT_EVENT_DICT, NEXT_EVENT_DICT, TTRIG_EVENT_TRACK_DICT,
                    StarterSamp, h0State, h0remdur, jJ, EvTrigTimes, EvTrigMags,
                    H0_REAL, seedLog, writes, spell, completed, inputCase,
                    callVars >>

\* lines 250-252: writing an output file raises; nothing in WG_Worker_Main
\* catches it, so the exception leaves the call and ends the worker's chunk
OutputRaise ==
    /\ pc = "loop"
    /\ LoopDone(jJ)
    /\ pc' = "raised"
    /\ UNCHANGED << RealNum, results, DDRY_SPELL_SAMP, DWET_SPELL_SAMP, DP_DEPTH_SAMP,
                    ST_PDEPTH, EPS_NORM_SAMP, EPSI_2, CHI_M0,
                    CHI_L1M0, ACT_EVENT_DICT, NEXT_EVENT_DICT, TTRIG_EVENT_TRACK_DICT,
                    StarterSamp, h0State, h0remdur, jJ, EvTrigTimes, EvTrigMags,
                    H0_REAL, seedLog, writes, spell, completed, reports, inputCase,
                    callVars >>

Next == Setup \/ Day \/ OutputReturn \/ OutputRaise

Spec == Init /\ [][Next]_vars

-----------------------------------------------------------------------------
(* The worker on edited input tables *)

\* EAAWG_Inputs.py as it is, and with one entry edited: a shape of the depth
\* distribution, a parameter of the dry spell distribution, a field of
\* "2-year".  Every case is one whose outcome the constructors decide: they
\* raise, or they build objects scipy samples from.
InputCases ==
    {ValidInputs,
     [ValidInputs EXCEPT !.gamma = << PyFloat(-1000), PyFloat(1348), PyFloat(5611) >>],
     [ValidInputs EXCEPT !.gamma = << PyFloat(784), PyInt(1), PyFloat(5611) >>],
     [ValidInputs EXCEPT !.nb = << PyFloat(1000001), PyFloat(298) >>],
     [ValidInputs EXCEPT !.nb = << PyFloat(3915), PyFloat(0) >>],
     [ValidInputs EXCEPT !.event = << PyInt(1), PyFloat(96000), PyFloat(153748) >>],
     [ValidInputs EXCEPT !.event = << PyInt(2), PyFloat(200000), PyFloat(153748) >>],
     [ValidInputs EXCEPT !.event = << PyInt(2), PyFloat(96000), PyInt(200) >>]}

InitInputs ==
    /\ WorkerInit
    /\ inputCase \in InputCases
    /\ coord = NoCoord
    /\ ctor = NoCtor
    /\ ow = NoOw

NextInputs == Setup \/ SetupRaise \/ Day \/ OutputReturn \/ OutputRaise

SpecInputs == InitInputs /\ [][NextInputs]_vars

-----------------------------------------------------------------------------
(* EAAWGmp.py, __main__: the check of the returned statuses *)

\* largest --num_real of the checks explored
MaxNumReal == 6
\* statuses a call of WG_Worker_Main hands back to the coordinator
StatusSet == {0, 1}

\* the worker process's variables, untouched by the coordinator's check
workerVars == << pc, RealNum, results, DDRY_SPELL_SAMP, DWET_SPELL_SAMP, DP_DEPTH_SAMP,
                 ST_PDEPTH, EPS_NORM_SAMP, EPSI_2, CHI_M0,
                 CHI_L1M0, ACT_EVENT_DICT, NEXT_EVENT_DICT, TTRIG_EVENT_TRACK_DICT,
                 StarterSamp, h0State, h0remdur, jJ, EvTrigTimes, EvTrigMags, H0_REAL,
                 seedLog, writes, spell, completed, reports, inputCase >>

\* sum( results )
RECURSIVE sum(_)
sum(res) == IF res = << >> THEN 0 ELSE Head(res) + sum(Tail(res))

\* processOutputsForPEST: RealsList, the realizations whose output it reads
RealsList(numReal) == 1..numReal

\* lines 295-320: exit signal, whether processOutputsForPEST is called (and
\* the realizations it then reads) and the success count of the message
checkResults_PestAlways(num_real, res) ==
    IF num_real < 5
    THEN IF res[1] = 0
         THEN [exit |-> 0, pest |-> TRUE, reals |-> RealsList(num_real), NumSuccess |-> num_real]
         ELSE [exit |-> -1, pest |-> TRUE, reals |-> RealsList(num_real), NumSuccess |-> 0]
    ELSE LET TotFails == sum(res)
         IN  IF TotFails = 0
             THEN [exit |-> 0, pest |-> TRUE, reals |-> RealsList(num_real),
                   NumSuccess |-> num_real]
             ELSE [exit |-> -2, pest |-> TRUE, reals |-> RealsList(num_real),
                   NumSuccess |-> num_real - TotFails]
checkResults(num_real, res) ==
    IF num_real < 5
    THEN IF res[1] = 0
         THEN [exit |-> 0, pest |-> TRUE, reals |-> RealsList(num_real), NumSuccess |-> num_real]
         ELSE [exit |-> -1, pest |-> FALSE, reals |-> {}, NumSuccess |-> 0]
    ELSE LET TotFails == sum(res)
         IN  IF TotFails = 0
             THEN [exit |-> 0, pest |-> TRUE, reals |-> RealsList(num_real),
                   NumSuccess |-> num_real]
             ELSE [exit |-> -2, pest |-> FALSE, reals |-> {},
                   NumSuccess |-> num_real - TotFails]

\* the statuses are in: one per realization, lines 280-293
InitCoord ==
    /\ WorkerInit
    /\ inputCase = ValidInputs
    /\ ctor = NoCtor
    /\ ow = NoOw
    /\ \E n \in 1..MaxNumReal : \E res \in [1..n -> StatusSet] :
           coord = [NoCoord EXCEPT !.num_real = n, !.results = res]

\* lines 295-320
CheckResults ==
    /\ coord.num_real >= 1
    /\ ~coord.done
    /\ LET out == checkResults(coord.num_real, coord.results)
       IN  coord' = [coord EXCEPT !.done = TRUE, !.exit = out.exit, !.pest = out.pest,
                                  !.reals = out.reals, !.NumSuccess = out.NumSuccess]
    /\ UNCHANGED << workerVars, ctor, ow >>

NextCoord == CheckResults

SpecCoord == InitCoord /\ [][NextCoord]_vars

-----------------------------------------------------------------------------
(* The constructors, called on their own *)

\* arguments tried: a, c and scale of Gamma2PCont
GammaShapeA == {PyFloat(-1000), PyFloat(0), PyFloat(784), PyInt(1)}
GammaShapeC == {PyFloat(-500), PyFloat(0), PyFloat(1348), PyInt(1)}
GammaScale == {PyFloat(-1000), PyFloat(0), PyFloat(5611)}
\* N and P of NegBinomial
NegBinomialN == {PyFloat(-1000), PyFloat(0), PyFloat(3915), PyFloat(1000000),
                 PyFloat(1000001), PyInt(4)}
NegBinomialP == {PyFloat(-100), PyFloat(0), PyFloat(298), PyFloat(1000), PyFloat(1001),
                 PyFloat(5000), PyFloat(10000), PyInt(1)}
\* aveRecurYrs, lowMag and highMag of ExtremeEvent
EventYrs == {PyInt(1), PyInt(2), PyInt(50), PyFloat(2000)}
EventLow == {PyFloat(96000), PyFloat(200000), PyInt(96)}
EventHigh == {PyFloat(96000), PyFloat(153748), PyInt(200)}

InitCtor ==
    /\ WorkerInit
    /\ inputCase = ValidInputs
    /\ coord = NoCoord
    /\ ow = NoOw
    /\ \/ \E a \in GammaShapeA, c \in GammaShapeC, scale \in GammaScale :
             ctor = [cls |-> "Gamma2PCont", args |-> << a, c, scale >>, out |-> "pending"]
       \/ \E N \in NegBinomialN, P \in NegBinomialP :
             ctor = [cls |-> "NegBinomial", args |-> << N, P >>, out |-> "pending"]
       \/ \E yrs \in EventYrs, low \in EventLow, high \in EventHigh :
             ctor = [cls |-> "ExtremeEvent", args |-> << yrs, low, high >>,
                     out |-> "pending"]

ConstructGamma ==
    /\ ctor.cls = "Gamma2PCont"
    /\ ctor.out = "pending"
    /\ ctor' = [ctor EXCEPT !.out = Gamma2PCont_init(ctor.args[1], ctor.args[2],
                                                      ctor.args[3])]
    /\ UNCHANGED << workerVars, coord, ow >>

ConstructNegBinomial ==
    /\ ctor.cls = "NegBinomial"
    /\ ctor.out = "pending"
    /\ ctor' = [ctor EXCEPT !.out = NegBinomial_init(ctor.args[1], ctor.args[2])]
    /\ UNCHANGED << workerVars, coord, ow >>

ConstructEvent ==
    /\ ctor.cls = "ExtremeEvent"
    /\ ctor.out = "pending"
    /\ ctor' = [ctor EXCEPT !.out = ExtremeEvent_init(ctor.args[1], ctor.args[2],
                                                       ctor.args[3])]
    /\ UNCHANGED << workerVars, coord, ow >>

NextCtor == ConstructGamma \/ ConstructNegBinomial \/ ConstructEvent

SpecCtor == InitCtor /\ [][NextCtor]_vars

-----------------------------------------------------------------------------
(* The residual and temperature functions of EAAWG_OtherWeather.py, called  *)
(* in the order of one loop iteration: updateTracker, calcCHI0,              *)
(* calculateUpdate, rollOverChis *)

\* yesterday's residual and the innovation the first call finds
ResidualInputs == {<< 1000, 1000 >>, << 0, 0 >>, << NaN, 0 >>, << PInf, -4000 >>,
                   << 9000, -9000 >>}
InnovationInputs == {<< 0, 0 >>, << 8000, -9000 >>, << NaN, 500 >>, << 500, PInf >>}
\* variates the two standard normal samplers return
NormalDraws == {<< 0, 0 >>, << 8000, 8000 >>, << NaN, NaN >>, << -9000, -9000 >>}

InitOther ==
    /\ WorkerInit
    /\ inputCase = ValidInputs
    /\ coord = NoCoord
    /\ ctor = NoCtor
    /\ \E cv \in CurveCases, chiL1 \in ResidualInputs, eps \in InnovationInputs :
           ow = [NoOw EXCEPT !.pc = "calc", !.curves = cv, !.CHI_L1M0 = chiL1,
                             !.EPSI_2 = eps]

\* updateTracker, lines 164-178
UpdateTracker ==
    /\ ow.pc = "sample"
    /\ ow.day < TOTAL_DAYS
    /\ \E n \in NormalDraws :
           ow' = [ow EXCEPT !.pc = "calc",
                            !.EPSI_2 = << EpsCheck(n[1]), EpsCheck(n[2]) >>]
    /\ UNCHANGED << workerVars, coord, ctor >>

\* calcCHI0, lines 255-280
CalcCHI0 ==
    /\ ow.pc = "calc"
    /\ ow' = [ow EXCEPT !.pc = "update",
                        !.CHI_M0 = calcCHI0(ow.CHI_L1M0, ow.EPSI_2),
                        !.fellBack = MatMulRaises(ow.CHI_L1M0, ow.EPSI_2)]
    /\ UNCHANGED << workerVars, coord, ctor >>

\* calculateUpdate, lines 180-239, for either state of the day; assignTemp
\* stores the two values in the float32 table
CalculateUpdate ==
    /\ ow.pc = "update"
    /\ \E state \in {WET_STATE, DRY_STATE} :
           LET temp == calculateUpdate(ow.CHI_M0, DayOfYear(ow.day), state)
           IN  ow' = [ow EXCEPT !.pc = "roll", !.state = state,
                                !.tmax = Float32(temp.tmax),
                                !.tmin = Float32(temp.tmin)]
    /\ UNCHANGED << workerVars, coord, ctor >>

\* rollOverChis, lines 241-253, and the end of the iteration
RollOverChis ==
    /\ ow.pc = "roll"
    /\ ow' = [ow EXCEPT !.pc = "sample", !.CHI_L1M0 = ow.CHI_M0, !.day = @ + 1]
    /\ UNCHANGED << workerVars, coord, ctor >>

NextOther == UpdateTracker \/ CalcCHI0 \/ CalculateUpdate \/ RollOverChis

SpecOther == InitOther /\ [][NextOther]_vars

-----------------------------------------------------------------------------
(* Properties *)

\* the row the last completed iteration wrote
LastRow == jJ - 1
InLoopAfterDay == pc = "loop" /\ jJ > 0

\* The run of realization r in a process that has run nothing before it: the
\* two samplers setupDistsSamples creates are at the head of the list, and
\* CHI_L1M0 holds the ones the module is loaded with.
FreshEps(r, k) ==
    LET samp == [seed |-> STD_NORM_DEF_SEED + r, pos |-> k]
    IN  updateTracker_Eps(<< samp, samp >>)
RECURSIVE FreshChi(_, _)
FreshChi(r, j) ==
    calcCHI0(IF j = 0 THEN << 1000, 1000 >> ELSE FreshChi(r, j - 1), FreshEps(r, j + 1))
FreshTemp(r, j, state) ==
    LET t == calculateUpdate(FreshChi(r, j), DayOfYear(j), state)
    IN  [tmax |-> Float32(t.tmax), tmin |-> Float32(t.tmin)]

\* every sampler the next iteration reads was created by the realization that
\* runs, and stands where the realization's own draws have left it
OwnSamplers ==
    /\ \A i \in {1, 2} :
          EPS_NORM_SAMP[i] = [seed |-> STD_NORM_DEF_SEED + RealNum, pos |-> jJ + 1]
    /\ \A m \in MonthInts :
          /\ DP_DEPTH_SAMP[m] = [seed |-> PDEPTH_DEF_SEED + RealNum, pos |-> jJ + 1]
          /\ DWET_SPELL_SAMP[m] = [seed |-> WET_STA_DEF_SEED + RealNum, pos |-> jJ + 1]
          /\ DDRY_SPELL_SAMP[m] = [seed |-> DRY_STA_DEF_SEED + RealNum, pos |-> jJ + 1]
    /\ \A ev \in EVENT_KEYS :
          /\ ACT_EVENT_DICT[ev].recur =
                 [seed |-> EVENT_RECUR_DEF_SEED + RealNum + ev,
                  pos |-> Len(TTRIG_EVENT_TRACK_DICT[ev]) + 1]
          /\ ACT_EVENT_DICT[ev].mag =
                 [seed |-> EVENT_MAG_DEF_SEED + RealNum + ev,
                  pos |-> Len(TTRIG_EVENT_TRACK_DICT[ev]) + 1]

\* C1: whatever realizations the worker process has run before, a realization
\* reads only samplers of its own, at the positions of its own draws, and the
\* temperatures it records on each day are those the same realization records
\* in a process that has run nothing before it.
C1_SameAsFirstInProcess ==
    pc = "loop" =>
        /\ OwnSamplers
        /\ jJ > 0 => [tmax |-> H0_REAL[LastRow].tmax, tmin |-> H0_REAL[LastRow].tmin]
                     = FreshTemp(RealNum, LastRow, h0State)

\* C1 in the first realization of the process, where it holds
C1_FirstRealization == RealNum = START_REAL => C1_SameAsFirstInProcess

\* C2: two different realizations never create samplers with the same seed
\* from the same seed base.
C2_NoSeedCollision ==
    \A a \in seedLog, b \in seedLog :
        (a.real # b.real /\ a.base = b.base) => a.seed # b.seed

\* C2 for the samplers that play the same role in both realizations
C2_SameRoleDistinct ==
    \A a \in seedLog, b \in seedLog :
        (a.real # b.real /\ a.base = b.base /\ a.role = b.role) => a.seed # b.seed

\* C3: the precipitation recorded for a day is 0 exactly when the state of
\* the day, after its toggle test, is dry; every wet day, a day that toggles
\* from dry to wet included, records a precipitation above 0.
C3_ZeroIffDry ==
    InLoopAfterDay =>
        /\ H0_REAL[LastRow].pre = 0 <=> h0State = DRY_STATE
        /\ h0State = WET_STATE => H0_REAL[LastRow].pre > 0

\* C3 witness: a day that toggled from dry to wet with the drawn depth raised
\* to the wet day threshold
C3_ToggleToWetAtThreshold ==
    /\ InLoopAfterDay
    /\ h0State = WET_STATE
    /\ spell.start = LastRow
    /\ H0_REAL[LastRow].pre = WD_THRESH

RowsWrittenOnce(n) ==
    \A t \in 0..(TOTAL_DAYS - 1) :
        writes[t] = IF t < n THEN [pre |-> 1, temp |-> 1] ELSE [pre |-> 0, temp |-> 0]
RealizationEnded == pc \in {"finished", "raised"} \/ (pc = "ready" /\ results # << >>)

\* C4: a realization leaves its loop only after TOTAL_DAYS iterations, never
\* earlier and never later; iterations 0..j-1 have assigned the precipitation
\* and the temperatures of rows 0..j-1 once each and of no other row; the
\* buffer keeps the TOTAL_DAYS rows it was created with.
C4_ExactlyTotalDays ==
    /\ pc = "loop" =>
          /\ jJ <= TOTAL_DAYS
          /\ DOMAIN H0_REAL = 0..(TOTAL_DAYS - 1)
          /\ RowsWrittenOnce(jJ)
    /\ RealizationEnded =>
          /\ jJ = TOTAL_DAYS
          /\ DOMAIN H0_REAL = 0..(TOTAL_DAYS - 1)
          /\ RowsWrittenOnce(TOTAL_DAYS)

\* C4 witness: the last realization has returned with every row written once
C4_AllRowsWritten ==
    /\ pc = "finished"
    /\ Len(results) = NumReal
    /\ jJ = TOTAL_DAYS
    /\ RowsWrittenOnce(TOTAL_DAYS)

\* C5: the temperatures recorded for a day differ by at least the minimum
\* daily delta, and the recorded minimum is the mapped minimum as the buffer
\* holds it: a correction raises only the maximum.
C5_MinDeltaRecorded ==
    InLoopAfterDay =>
        /\ H0_REAL[LastRow].tmax - H0_REAL[LastRow].tmin >= MIN_DAILY_DELTA
        /\ H0_REAL[LastRow].tmin
               = Float32(mappedMinT(CHI_M0, DayOfYear(LastRow), h0State))

\* C5, the second half alone, which holds: the correction leaves the minimum
C5_MinimumKept ==
    InLoopAfterDay =>
        H0_REAL[LastRow].tmin = Float32(mappedMinT(CHI_M0, DayOfYear(LastRow), h0State))

\* C6: a spell that starts at a toggle and ends at the next toggle lasts as
\* many days as the spell length drawn at the toggle that started it.
C6_SpellLengthExact == \A c \in completed : c.days = c.drawn

\* C6 witness: a dry spell of the shortest length the dry sampler returns has
\* run from toggle to toggle
C6_DrySpellCompleted ==
    \E c \in completed :
        c.state = DRY_STATE /\ c.drawn = DrySpellLoc(MonthOf(0)) /\ c.days = c.drawn

\* the classes that triggered on day d, and the sum of the magnitudes logged
TriggeredOn(d) ==
    {ev \in EVENT_KEYS :
        /\ Len(TTRIG_EVENT_TRACK_DICT[ev]) > 0
        /\ TTRIG_EVENT_TRACK_DICT[ev][Len(TTRIG_EVENT_TRACK_DICT[ev])].day = d}
LoggedMag(ev) ==
    IF Len(TTRIG_EVENT_TRACK_DICT[ev]) > 0
    THEN TTRIG_EVENT_TRACK_DICT[ev][Len(TTRIG_EVENT_TRACK_DICT[ev])].mag
    ELSE 0
LoggedSum(d) == SumOver(TriggeredOn(d), [ev \in EVENT_KEYS |-> LoggedMag(ev)])

\* C7 as stated: a dry day records 0, and a wet day on which classes trigger
\* records the depth drawn for the day plus the sum of their magnitudes.
C7_BasePlusEvents ==
    InLoopAfterDay =>
        /\ h0State = DRY_STATE => H0_REAL[LastRow].pre = 0
        /\ TriggeredOn(LastRow) # {} =>
              H0_REAL[LastRow].pre = Float32(ST_PDEPTH.val + LoggedSum(LastRow))

\* C7 as amended: a dry day records 0, and a wet day on which classes trigger
\* records the sum of their magnitudes alone; the depth drawn for the day is
\* not added.
C7_EventsReplaceBase ==
    InLoopAfterDay =>
        /\ h0State = DRY_STATE => H0_REAL[LastRow].pre = 0
        /\ TriggeredOn(LastRow) # {} =>
              /\ h0State = WET_STATE
              /\ H0_REAL[LastRow].pre = Float32(LoggedSum(LastRow))

\* C7 witness: two classes triggered on the day just recorded
C7_TwoClassesTriggered ==
    /\ InLoopAfterDay
    /\ Cardinality(TriggeredOn(LastRow)) = 2
    /\ H0_REAL[LastRow].pre = Float32(LoggedSum(LastRow))

Rearmed(ev) == Len(TTRIG_EVENT_TRACK_DICT[ev]) > 0
RearmDay(ev) == TTRIG_EVENT_TRACK_DICT[ev][Len(TTRIG_EVENT_TRACK_DICT[ev])].day

\* C8: a class that triggered on elapsed day d is re-armed at d plus a fresh
\* interarrival of a whole, non-negative number of Poisson years, so at d or
\* later; the old trigger offset plays no part.
C8_RearmFromElapsedDay ==
    pc = "loop" =>
        \A ev \in EVENT_KEYS :
            Rearmed(ev) =>
                /\ \E k \in PoissonDraws :
                      NEXT_EVENT_DICT[ev].time = 4 * RearmDay(ev) + nextEventDays(k)
                /\ NEXT_EVENT_DICT[ev].time >= 4 * RearmDay(ev)

\* C8 witness: a class first armed at offset 0 triggered on the second day or
\* later and was re-armed one year after that day
C8_RearmedAYearOn ==
    /\ pc = "loop"
    /\ \E ev \in EVENT_KEYS :
          /\ Rearmed(ev)
          /\ RearmDay(ev) >= 2
          /\ NEXT_EVENT_DICT[ev].time = 4 * RearmDay(ev) + QDAYS_PER_YEAR

\* C9 as stated: at the top of every iteration the offset of a class that has
\* been re-armed is at or after the current elapsed day.
C9_OffsetNotBeforeToday ==
    (pc = "loop" /\ jJ < TOTAL_DAYS) =>
        \A ev \in EVENT_KEYS : Rearmed(ev) => NEXT_EVENT_DICT[ev].time >= 4 * jJ

\* C9 as amended: the offset of a class that has been re-armed is at or after
\* the elapsed day of its latest re-arm, and the loop's copy of it agrees.
C9_OffsetNotBeforeRearm ==
    pc = "loop" =>
        \A ev \in EVENT_KEYS :
            Rearmed(ev) =>
                /\ NEXT_EVENT_DICT[ev].time >= 4 * RearmDay(ev)
                /\ EvTrigTimes[ev] = NEXT_EVENT_DICT[ev].time

\* C9 witness: a class re-armed with an interarrival of zero years, whose
\* offset the elapsed day count has overtaken
C9_OffsetOvertaken ==
    /\ pc = "loop"
    /\ jJ < TOTAL_DAYS
    /\ \E ev \in EVENT_KEYS :
          /\ Rearmed(ev)
          /\ NEXT_EVENT_DICT[ev].time = 4 * RearmDay(ev)
          /\ NEXT_EVENT_DICT[ev].time < 4 * jJ

\* C10: when a realization has raised, the worker has recorded a status other
\* than 0 for it, and a realization left in the chunk can still be started.
C10_FailureBecomesStatus ==
    pc = "raised" =>
        /\ Len(results) = (RealNum - START_REAL) + 1
        /\ results[Len(results)] # 0
        /\ RealNum < LastReal => ENABLED Setup

Succeeded == {i \in 1..Len(coord.results) : coord.results[i] = 0}
SomeFailed == \E i \in 1..Len(coord.results) : coord.results[i] # 0

JustReturned == pc \in {"ready", "finished"} /\ results # << >>
LastReturned == START_REAL + (Len(results) - 1)
\* the summary lists, for every class, its log or else its pending event
ListsEveryClass(rep) ==
    /\ rep.real = LastReturned
    /\ \A ev \in EVENT_KEYS :
        /\ Len(rep.body[ev].triggered) = Len(TTRIG_EVENT_TRACK_DICT[ev])
        /\ \A i \in 1..Len(TTRIG_EVENT_TRACK_DICT[ev]) :
              /\ rep.body[ev].triggered[i].date = TTRIG_EVENT_TRACK_DICT[ev][i].day
              /\ 100 * rep.body[ev].triggered[i].mm - TTRIG_EVENT_TRACK_DICT[ev][i].mag
                    \in -50..50
        /\ TTRIG_EVENT_TRACK_DICT[ev] = << >> =>
              /\ Len(rep.body[ev].first) = 1
              /\ 4 * rep.body[ev].first[1].date <= NEXT_EVENT_DICT[ev].time
              /\ NEXT_EVENT_DICT[ev].time < 4 * (rep.body[ev].first[1].date + 1)
              /\ 100 * rep.body[ev].first[1].mm - NEXT_EVENT_DICT[ev].mag \in -50..50
        /\ TTRIG_EVENT_TRACK_DICT[ev] # << >> => rep.body[ev].first = << >>

Constructed(cls) == ctor.cls = cls /\ ctor.out # "pending"

\* C14: constructing a Gamma-depth distribution raises the invalid-parameter
\* error, and yields no object, whenever a <= 0, c = 0, scale <= 0, or a or c
\* is not a float.
C14_GammaInvalidRaises ==
    Constructed("Gamma2PCont") =>
        LET a == ctor.args[1]
            c == ctor.args[2]
            scale == ctor.args[3]
        IN  (\/ a.type # "float"
             \/ c.type # "float"
             \/ Num(a) <= 0
             \/ Num(c) = 0
             \/ Num(scale) <= 0) => ctor.out = "CreateDistError"

\* C15: constructing a negative-binomial spell distribution succeeds only when
\* N is in (0, 1000] and P is in (0, 1]; outside these ranges it raises the
\* invalid-parameter error.
C15_NegBinomialRanges ==
    Constructed("NegBinomial") =>
        LET N == Num(ctor.args[1])
            P == Num(ctor.args[2])
            inRange == (N > 0 /\ N <= 1000000) /\ (P > 0 /\ P <= 1000)
        IN  /\ ctor.out = "object" => inRange
            /\ ~inRange => ctor.out = "CreateDistError"

\* C16: constructing an extreme-event class raises the invalid-parameter error
\* whenever low >= high, the recurrence interval is < 2 years or not an
\* integer, or the low or the high magnitude is not a float.
C16_EventInvalidRaises ==
    Constructed("ExtremeEvent") =>
        LET yrs == ctor.args[1]
            low == ctor.args[2]
            high == ctor.args[3]
        IN  (\/ Num(low) >= Num(high)
             \/ Num(yrs) < 2000
             \/ yrs.type # "int"
             \/ low.type # "float"
             \/ high.type # "float") => ctor.out = "CreateEventError"

\* the parameters a realization is built from are invalid: a shape or scale
\* that is not positive or not a float, N outside (0, 1000], P outside (0, 1],
\* low >= high, a recurrence interval below 2 years or not an integer, a
\* magnitude bound that is not a float
InvalidInputs ==
    \/ \E i \in 1..3 : inputCase.gamma[i].type # "float"
    \/ Num(inputCase.gamma[1]) <= 0
    \/ Num(inputCase.gamma[2]) = 0
    \/ Num(inputCase.gamma[3]) <= 0
    \/ \E i \in 1..2 : inputCase.nb[i].type # "float"
    \/ Num(inputCase.nb[1]) <= 0 \/ Num(inputCase.nb[1]) > 1000000
    \/ Num(inputCase.nb[2]) <= 0 \/ Num(inputCase.nb[2]) > 1000
    \/ inputCase.event[1].type # "int"
    \/ Num(inputCase.event[1]) < 2000
    \/ \E i \in 2..3 : inputCase.event[i].type # "float"
    \/ Num(inputCase.event[2]) >= Num(inputCase.event[3])

\* C17: if a distribution or event-class parameter is invalid, the error is
\* raised during the set-up of the realization: the worker never gets past
\* the set-up, no day is simulated, no row of the buffer is written and no
\* realization returns.
C17_InvalidInputsFailInSetup ==
    InvalidInputs =>
        /\ pc \in {"ready", "raised"}
        /\ jJ = 0
        /\ writes = << >>
        /\ results = << >>

\* the day just recorded holds a base depth: it is wet and no class triggered
BaseDepthDay == InLoopAfterDay /\ h0State = WET_STATE /\ TriggeredOn(LastRow) = {}

\* C18: on every day that records a base depth, the recorded value is the
\* depth drawn that day from the gamma distribution of the day's calendar
\* month, and it lies between the wet/dry threshold and the month's cap.
C18_BaseDepthDrawnInRange ==
    BaseDepthDay =>
        /\ ST_PDEPTH.mon = MonthOf(LastRow)
        /\ H0_REAL[LastRow].pre = ST_PDEPTH.val
        /\ H0_REAL[LastRow].pre >= WD_THRESH
        /\ H0_REAL[LastRow].pre <= MON_MAX_PP[MonthOf(LastRow)]

\* class ev triggers on the day about to be simulated: the day is wet and
\* stays wet, and the class's pending offset is before the elapsed-day count
TriggersToday(ev) ==
    /\ h0State = WET_STATE
    /\ h0remdur > 0
    /\ NEXT_EVENT_DICT[ev].time < 4 * jJ

\* a day of the loop changes the pending pair, the log or the samplers of a
\* class only if the class triggers that day, and then it logs the day
PendingFrame ==
    (pc = "loop" /\ pc' = "loop") =>
        \A ev \in EVENT_KEYS :
            /\ (\/ NEXT_EVENT_DICT'[ev] # NEXT_EVENT_DICT[ev]
                \/ TTRIG_EVENT_TRACK_DICT'[ev] # TTRIG_EVENT_TRACK_DICT[ev]
                \/ ACT_EVENT_DICT'[ev] # ACT_EVENT_DICT[ev]) => TriggersToday(ev)
            /\ NEXT_EVENT_DICT'[ev] # NEXT_EVENT_DICT[ev] =>
                  Len(TTRIG_EVENT_TRACK_DICT'[ev]) = Len(TTRIG_EVENT_TRACK_DICT[ev]) + 1

\* a class with an empty log holds the one draw of the set-up: each of its
\* samplers has been drawn once, the offset is a whole number of mean years
\* with no elapsed days added, and the magnitude is the first variate of the
\* class's own magnitude stream
FirstDrawKept ==
    pc = "loop" =>
        \A ev \in EVENT_KEYS :
            TTRIG_EVENT_TRACK_DICT[ev] = << >> =>
                /\ ACT_EVENT_DICT[ev].recur.pos = 1
                /\ ACT_EVENT_DICT[ev].mag.pos = 1
                /\ \E k \in PoissonDraws : NEXT_EVENT_DICT[ev].time = 1461 * k
                /\ NEXT_EVENT_DICT[ev].mag =
                      nextEventDailyMag(ev, [seed |-> (EVENT_MAG_DEF_SEED + RealNum) + ev,
                                             pos |-> 0])

\* C19: the pending (offset, magnitude) pair and the log of a class change
\* only on a day on which the class triggers; a class that has not triggered
\* has an empty log and its pending pair is its single pre-realization draw.
C19_ChangeOnlyOnTrigger == [][PendingFrame]_vars /\ []FirstDrawKept

\* the loop has ended with one class never triggered and another triggered
C19_OneClassNeverTriggered ==
    /\ pc = "loop"
    /\ LoopDone(jJ)
    /\ \E ev \in EVENT_KEYS : TTRIG_EVENT_TRACK_DICT[ev] = << >>
    /\ \E ev \in EVENT_KEYS : TTRIG_EVENT_TRACK_DICT[ev] # << >>

\* C20: in the log of every event class the dates are strictly increasing:
\* each entry is on a later day than the entry before it, so a class is
\* logged at most once per simulated day; every date is a day already
\* simulated.
C20_LogDatesIncrease ==
    \A ev \in DOMAIN TTRIG_EVENT_TRACK_DICT :
        LET log == TTRIG_EVENT_TRACK_DICT[ev]
        IN  /\ \A i \in 1..(Len(log) - 1) : log[i].day < log[i + 1].day
            /\ \A i \in 1..Len(log) : log[i].day >= 0 /\ log[i].day < jJ

\* a class has triggered on two days of one realization
C20_ClassLoggedTwice ==
    \E ev \in DOMAIN TTRIG_EVENT_TRACK_DICT : Len(TTRIG_EVENT_TRACK_DICT[ev]) >= 2

\* a step of the day loop that simulates a wet day staying wet
WetStayStep ==
    /\ pc = "loop" /\ pc' = "loop" /\ jJ' = jJ + 1
    /\ h0State = WET_STATE
    /\ h0remdur > 0
\* the classes whose pending offset is before the elapsed-day count, and the
\* sum of their pending magnitudes
DueToday == {ev \in EVENT_KEYS : NEXT_EVENT_DICT[ev].time < 4 * jJ}
DueSum == SumOver(DueToday, [ev \in EVENT_KEYS |-> NEXT_EVENT_DICT[ev].mag])
\* the step logs class ev on the day simulated and re-arms it
LoggedAndRearmed(ev) ==
    /\ Len(TTRIG_EVENT_TRACK_DICT'[ev]) = Len(TTRIG_EVENT_TRACK_DICT[ev]) + 1
    /\ TTRIG_EVENT_TRACK_DICT'[ev][Len(TTRIG_EVENT_TRACK_DICT'[ev])].day = jJ
    /\ NEXT_EVENT_DICT'[ev].time >= 4 * jJ
    /\ ACT_EVENT_DICT'[ev].recur.pos = ACT_EVENT_DICT[ev].recur.pos + 1
    /\ ACT_EVENT_DICT'[ev].mag.pos = ACT_EVENT_DICT[ev].mag.pos + 1

\* C21 as stated: on a wet day with remaining spell length > 0 every class
\* whose offset is below the elapsed-day count triggers, and the recorded
\* precipitation equals the sum of the triggered magnitudes if any class
\* triggered and the month's drawn depth otherwise.
WetStayExact ==
    WetStayStep =>
        /\ \A ev \in DueToday : LoggedAndRearmed(ev)
        /\ ST_PDEPTH'.mon = MonthOf(jJ)
        /\ H0_REAL'[jJ].pre = IF DueToday # {} THEN DueSum ELSE ST_PDEPTH'.val
WetStayStored ==
    WetStayStep =>
        /\ \A ev \in DueToday : LoggedAndRearmed(ev)
        /\ \A ev \in EVENT_KEYS \ DueToday :
              TTRIG_EVENT_TRACK_DICT'[ev] = TTRIG_EVENT_TRACK_DICT[ev]
        /\ ST_PDEPTH'.mon = MonthOf(jJ)
        /\ H0_REAL'[jJ].pre =
              Float32(IF DueToday # {} THEN DueSum ELSE ST_PDEPTH'.val)
NotWetStayStep ==
    /\ pc = "loop" /\ pc' = "loop" /\ jJ' = jJ + 1
    /\ ~(h0State = WET_STATE /\ h0remdur > 0)
\* the step leaves every event class as it was
NoEventTouched ==
    /\ NEXT_EVENT_DICT' = NEXT_EVENT_DICT
    /\ TTRIG_EVENT_TRACK_DICT' = TTRIG_EVENT_TRACK_DICT
    /\ ACT_EVENT_DICT' = ACT_EVENT_DICT
    /\ EvTrigTimes' = EvTrigTimes
    /\ EvTrigMags' = EvTrigMags

\* C22 as stated: on a dry day and on a toggle day no event class is checked,
\* triggered, logged or re-armed; a dry-to-wet toggle day records the month's
\* drawn depth, never zero, and a wet-to-dry toggle day records zero.
NotWetStayExact ==
    NotWetStayStep =>
        /\ NoEventTouched
        /\ (h0State = DRY_STATE /\ h0remdur <= 0) =>
              /\ h0State' = WET_STATE
              /\ ST_PDEPTH'.mon = MonthOf(jJ)
              /\ H0_REAL'[jJ].pre = ST_PDEPTH'.val
              /\ H0_REAL'[jJ].pre > 0
        /\ (h0State = WET_STATE /\ h0remdur <= 0) =>
              /\ h0State' = DRY_STATE
              /\ H0_REAL'[jJ].pre = 0
NotWetStayStored ==
    NotWetStayStep =>
        /\ NoEventTouched
        /\ (h0State = DRY_STATE /\ h0remdur <= 0) =>
              /\ h0State' = WET_STATE
              /\ ST_PDEPTH'.mon = MonthOf(jJ)
              /\ H0_REAL'[jJ].pre = Float32(ST_PDEPTH'.val)
              /\ H0_REAL'[jJ].pre > 0
        /\ (h0State = WET_STATE /\ h0remdur <= 0) =>
              /\ h0State' = DRY_STATE
              /\ H0_REAL'[jJ].pre = 0
        /\ (h0State = DRY_STATE /\ h0remdur > 0) =>
              /\ h0State' = DRY_STATE
              /\ H0_REAL'[jJ].pre = 0
C23_EverySamplerDrawnDaily ==
    pc = "loop" =>
        \A m \in MonthInts :
            /\ DDRY_SPELL_SAMP[m].pos = 1 + jJ
            /\ DWET_SPELL_SAMP[m].pos = 1 + jJ
            /\ DP_DEPTH_SAMP[m].pos = 1 + jJ

\* the loop has ended after a toggle and an event trigger, on days of two
\* calendar months
C23_EndAfterToggleAndTrigger ==
    /\ pc = "loop"
    /\ LoopDone(jJ)
    /\ spell.start >= 0
    /\ \E ev \in EVENT_KEYS : TTRIG_EVENT_TRACK_DICT[ev] # << >>
    /\ MonthOf(0) # MonthOf(LastRow)

\* the temperatures the curve set of a state gives for the last simulated day,
\* as they are stored in the results table
CurveTemps(state) ==
    LET t == enforceDelta(mappedMaxT(CHI_M0, DayOfYear(LastRow), state),
                          mappedMinT(CHI_M0, DayOfYear(LastRow), state))
    IN  [tmax |-> Float32(t.tmax), tmin |-> Float32(t.tmin)]
RecordedTemps == [tmax |-> H0_REAL[LastRow].tmax, tmin |-> H0_REAL[LastRow].tmin]

\* C24: the Tmax and Tmin of a day are those of the curve set of the
\* WeatherState as it is after the day's toggle check, and the wet curves are
\* used exactly on the days that record precipitation > 0.
C24_TempsUseStateAfterToggle ==
    InLoopAfterDay =>
        /\ RecordedTemps = CurveTemps(h0State)
        /\ (h0State = WET_STATE) <=> (H0_REAL[LastRow].pre > 0)

\* a day that toggled to WET after an earlier toggle to DRY, on which the two
\* curve sets give different temperatures
C24_ToggledToWetAfterDry ==
    /\ InLoopAfterDay
    /\ spell.start = LastRow
    /\ h0State = WET_STATE
    /\ \E c \in completed : c.state = DRY_STATE
    /\ CurveTemps(WET_STATE) # CurveTemps(DRY_STATE)

InSigma(x) == IsFinite(x) /\ x >= -SIGMA_THRESH /\ x <= SIGMA_THRESH

\* C25: after a day's residual update both channels of today's residual are
\* finite and in [-4, +4], whatever yesterday's residual and the innovation
\* were and also after the 1.0 fallback; the value copied into yesterday's
\* residual at the end of the day is that clipped value, so from the second
\* day on yesterday's residual is in [-4, +4] too.
C25_ResidualClipped ==
    /\ ow.pc \in {"update", "roll", "sample"} =>
           \A i \in {1, 2} : InSigma(ow.CHI_M0[i])
    /\ ow.pc = "sample" => ow.CHI_L1M0 = ow.CHI_M0
    /\ ow.day >= 1 => \A i \in {1, 2} : InSigma(ow.CHI_L1M0[i])

\* the first day's update took the 1.0 fallback, and the end of the day has
\* copied it into yesterday's residual
C25_FallbackRolledOver ==
    /\ ow.pc = "sample"
    /\ ow.day = 1
    /\ ow.fellBack
    /\ ow.CHI_L1M0 = << CHI_FALLBACK, CHI_FALLBACK >>

\* the mapping of one temperature raises or gives NaN or Inf
MapFails(chi, std, ave) ==
    LET r == TryMap(chi, std, ave) IN r = FPError \/ ~IsFinite(r)
\* the day of the year and the state of the call of calculateUpdate just made
CallDay == DayOfYear(ow.day)
TmaxFails ==
    IF ow.state = WET_STATE
    THEN MapFails(ow.CHI_M0[1], WET_TMAX_STD(CallDay), WET_TMAX_AVE(CallDay))
    ELSE MapFails(ow.CHI_M0[1], DRY_TMAX_STD(CallDay), DRY_TMAX_AVE(CallDay))
TminFails ==
    IF ow.state = WET_STATE
    THEN MapFails(ow.CHI_M0[2], WET_TMIN_STD(CallDay), WET_TMIN_AVE(CallDay))
    ELSE MapFails(ow.CHI_M0[2], DRY_TMIN_STD(CallDay), DRY_TMIN_AVE(CallDay))

\* C26: whenever the mapping of a day's temperature raises or gives NaN or
\* Inf, the Tmax or Tmin recorded (as the table stores it) is the dry-state
\* mean of that day of the year, whichever state applies that day.
C26_FallbackIsDryMean ==
    ow.pc = "roll" =>
        /\ TmaxFails => ow.tmax = Float32(DRY_TMAX_AVE(CallDay))
        /\ TminFails => ow.tmin = Float32(DRY_TMIN_AVE(CallDay))

\* on a WET day the product raised and the wet-state mean was recorded
C26_WetDayRecordsWetMean ==
    /\ ow.pc = "roll"
    /\ ow.state = WET_STATE
    /\ TryMap(ow.CHI_M0[1], WET_TMAX_STD(CallDay), WET_TMAX_AVE(CallDay)) = FPError
    /\ ow.tmax = Float32(WET_TMAX_AVE(CallDay))
    /\ ow.tmax # Float32(DRY_TMAX_AVE(CallDay))

\* C27: the remaining-spell counter is never negative at a day boundary:
\* after set-up and after each simulated day's decrement it is >= 0, for every
\* spell length the samplers return.
C27_CounterNeverNegative ==
    pc = "loop" => h0remdur >= 0

\* a day toggled for the second time and drew the shortest spell there is, so
\* the decrement left the counter at zero
C27_ShortestSpellAfterToggle ==
    /\ InLoopAfterDay
    /\ spell.start = LastRow
    /\ spell.drawn = 1
    /\ completed # {}
    /\ h0remdur = 0

\* the two standard normal samplers setupDistsSamples created for the
\* realization that runs
OwnEps == << EPS_NORM_SAMP[Len(EPS_NORM_SAMP) - 1], EPS_NORM_SAMP[Len(EPS_NORM_SAMP)] >>
DistinctSeeds(sampDict) ==
    \A m1, m2 \in MonthInts : m1 # m2 => sampDict[m1].seed # sampDict[m2].seed

\* C28: within one realization no two samplers are created with the same
\* seed: the twelve monthly samplers of one kind have twelve different seeds
\* and the two standard normal samplers have different seeds.
C28_NoTwoSamplersShareSeed ==
    pc = "loop" =>
        /\ DistinctSeeds(DDRY_SPELL_SAMP)
        /\ DistinctSeeds(DWET_SPELL_SAMP)
        /\ DistinctSeeds(DP_DEPTH_SAMP)
        /\ OwnEps[1].seed # OwnEps[2].seed

\* after a day of the first realization the two standard normal samplers have
\* one seed and one position, and the two innovations drawn are equal
C28_InnovationChannelsIdentical ==
    /\ InLoopAfterDay
    /\ Len(EPS_NORM_SAMP) = 2
    /\ EPS_NORM_SAMP[1] = EPS_NORM_SAMP[2]
    /\ EPSI_2[1] = EPSI_2[2]
    /\ \A m \in MonthInts : DP_DEPTH_SAMP[m] = DP_DEPTH_SAMP[1]

\* a class whose offset is passed is kept by a day that is dry or toggles:
\* same pending offset and magnitude, same log, still passed the next day
KeptPending(ev) ==
    /\ NEXT_EVENT_DICT'[ev] = NEXT_EVENT_DICT[ev]
    /\ EvTrigTimes'[ev] = EvTrigTimes[ev]
    /\ EvTrigMags'[ev] = EvTrigMags[ev]
    /\ TTRIG_EVENT_TRACK_DICT'[ev] = TTRIG_EVENT_TRACK_DICT[ev]
    /\ NEXT_EVENT_DICT'[ev].time < 4 * jJ'
\* the class triggers on the day simulated with the magnitude it was pending with
TriggersWithPending(ev) ==
    TTRIG_EVENT_TRACK_DICT'[ev] =
        Append(TTRIG_EVENT_TRACK_DICT[ev], [day |-> jJ, mag |-> NEXT_EVENT_DICT[ev].mag])
PassedIsCarried ==
    (pc = "loop" /\ pc' = "loop" /\ jJ' = jJ + 1) =>
        \A ev \in EVENT_KEYS :
            NEXT_EVENT_DICT[ev].time < 4 * jJ =>
                IF h0State = WET_STATE /\ h0remdur > 0
                THEN TriggersWithPending(ev)
                ELSE KeptPending(ev)

\* C29: an event class whose next-trigger offset is passed while the base
\* process is DRY or on a toggle day is not dropped: its pending offset and
\* magnitude stay as they are, and it triggers on the first later day that is
\* WET with remaining spell length > 0.
C29_PassedEventWaitsForWetDay == [][PassedIsCarried]_vars

\* a class passed on day 1 or later was carried over a toggle to WET and
\* triggered for the first time on the day after the toggle
C29_TriggeredDayAfterToggle ==
    /\ InLoopAfterDay
    /\ h0State = WET_STATE
    /\ spell.start >= 1
    /\ spell.start = LastRow - 1
    /\ \E ev \in EVENT_KEYS :
          /\ Len(TTRIG_EVENT_TRACK_DICT[ev]) = 1
          /\ TTRIG_EVENT_TRACK_DICT[ev][1].day = LastRow

\* the classes with a log entry dated d, and the sum of the magnitudes of
\* those entries
EntriesOn(ev, d) ==
    {i \in 1..Len(TTRIG_EVENT_TRACK_DICT[ev]) : TTRIG_EVENT_TRACK_DICT[ev][i].day = d}
LoggedOn(d) == {ev \in EVENT_KEYS : EntriesOn(ev, d) # {}}
MagOn(ev, d) ==
    IF EntriesOn(ev, d) = {} THEN 0
    ELSE TTRIG_EVENT_TRACK_DICT[ev][CHOOSE i \in EntriesOn(ev, d) : TRUE].mag
SumLoggedOn(d) == SumOver(LoggedOn(d), [ev \in EVENT_KEYS |-> MagOn(ev, d)])
\* a step that extends the log of a class appends one entry, dated with the
\* day simulated and holding the magnitude pending before the step, which is
\* the magnitude the loop adds to the day's event precipitation
LogsPendingMagnitude ==
    (pc = "loop" /\ pc' = "loop") =>
        \A ev \in EVENT_KEYS :
            TTRIG_EVENT_TRACK_DICT'[ev] # TTRIG_EVENT_TRACK_DICT[ev] =>
                /\ TTRIG_EVENT_TRACK_DICT'[ev] =
                       Append(TTRIG_EVENT_TRACK_DICT[ev],
                              [day |-> jJ, mag |-> NEXT_EVENT_DICT[ev].mag])
                /\ EvTrigMags[ev] = NEXT_EVENT_DICT[ev].mag
                /\ NEXT_EVENT_DICT'[ev].mag =
                       nextEventDailyMag(ev, ACT_EVENT_DICT[ev].mag)
RecordedIsExactSum ==
    pc = "loop" =>
        \A d \in 0..(jJ - 1) :
            LoggedOn(d) # {} => H0_REAL[d].pre = SumLoggedOn(d)
RecordedIsStoredSum ==
    pc = "loop" =>
        \A d \in 0..(jJ - 1) :
            LoggedOn(d) # {} => H0_REAL[d].pre = Float32(SumLoggedOn(d))

====
